---- MODULE Spec2Model ----
(***************************************************************************)
(* Model of cmd/logger.go: the process-wide Logger (quiet/json flags), the *)
(* path normalizer trimTrace, the stack-trace builder getTrace and the     *)
(* log-or-suppress-or-abort entry point logIf.                             *)
(*                                                                         *)
(* Strings are sequences of tokens.  A token is one character ("/", "\\",  *)
(* ":", a digit, a blank) or an indivisible piece of text the code never   *)
(* looks inside ("src", "runtime.", "<autogenerated>", a directory name).  *)
(***************************************************************************)
EXTENDS Integers, Sequences, FiniteSets, TLC

VARIABLES
    GOOS,         \* runtime.GOOS: "linux" or "windows"
    GOPATH,       \* the build constant GOPATH, a string
    trimStrings,  \* package variable trimStrings, filled by init()
    quiet,        \* log.quiet
    json,         \* log.json
    status,       \* the process: "running", "exit1" (os.Exit(1)), "panic" (died of a run-time panic)
    stdout,       \* the write calls made on os.Stdout, oldest first
    console,      \* number of console.Println / console.Printf calls made
    last,         \* the most recent call: its arguments and what it did
    procs         \* per goroutine: position in logIf and its locals

vars == <<GOOS, GOPATH, trimStrings, quiet, json, status, stdout, console,
          last, procs>>

----------------------------------------------------------------------------
(* Bounds of the model.                                                    *)

MaxPieces == 3     \* a path of the trimTrace runs is made of at most so many pieces
MaxDepth == 3      \* callers of logIf on a stack, runtime.goexit not counted
MaxWrap == 1       \* wrapping layers around a root-cause error
MaxCalls == 2      \* calls (Logger methods and logIf) made in one run of Spec
MaxSkip == 4       \* largest skip level getTrace is tried with
MaxDeep == 12      \* callers in the deepest stacks, all project frames
NProcs == 2        \* goroutines calling logIf concurrently

----------------------------------------------------------------------------
(* Strings.                                                                *)

RECURSIVE Concat(_)
Concat(ss) == IF ss = <<>> THEN <<>> ELSE Head(ss) \o Concat(Tail(ss))

\* strings.HasPrefix(s, prefix)
HasPrefix(s, prefix) ==
    /\ Len(prefix) <= Len(s)
    /\ SubSeq(s, 1, Len(prefix)) = prefix

\* strings.TrimPrefix(s, prefix): s without the leading prefix, or s itself.
TrimPrefix(s, prefix) ==
    IF HasPrefix(s, prefix) THEN SubSeq(s, Len(prefix) + 1, Len(s)) ELSE s

\* strings.Replace(s, old, new, -1) for one-character old and new.
ReplaceChar(s, old, new) ==
    [i \in 1..Len(s) |-> IF s[i] = old THEN new ELSE s[i]]

\* strings.Split(s, sep) for a one-character sep: the pieces between the
\* occurrences of sep. The result always has at least one element
\* (Split("", sep) is [""]).
Split(s, sep) ==
    LET cuts == {0, Len(s) + 1} \cup {i \in 1..Len(s) : s[i] = sep}
        cut(k) == CHOOSE c \in cuts : Cardinality({d \in cuts : d < c}) = k
    IN  [k \in 1..(Cardinality(cuts) - 1) |-> SubSeq(s, cut(k - 1) + 1, cut(k) - 1)]

RECURSIVE Join(_, _)
\* strings.Join(elems, sep)
Join(elems, sep) ==
    IF elems = <<>> THEN <<>>
    ELSE IF Len(elems) = 1 THEN elems[1]
    ELSE elems[1] \o sep \o Join(Tail(elems), sep)

RECURSIVE LastIndexIn(_, _)
\* Index of the last character of s that is in set cs, 0 when there is none.
LastIndexIn(s, cs) ==
    IF s = <<>> THEN 0
    ELSE IF s[Len(s)] \in cs THEN Len(s)
    ELSE LastIndexIn(SubSeq(s, 1, Len(s) - 1), cs)

----------------------------------------------------------------------------
(* path/filepath, per operating system.                                    *)

\* filepath.Separator
Separator(os) == IF os = "windows" THEN "\\" ELSE "/"

\* os.IsPathSeparator: Windows accepts both slashes.
PathSeparators(os) == IF os = "windows" THEN {"\\", "/"} ELSE {"/"}

\* filepath.ToSlash: replaces Separator by '/'; nothing to do where it is '/'.
ToSlash(os, path) ==
    IF Separator(os) = "/" THEN path ELSE ReplaceChar(path, Separator(os), "/")

\* filepath.FromSlash: replaces '/' by Separator.
FromSlash(os, path) ==
    IF Separator(os) = "/" THEN path ELSE ReplaceChar(path, "/", Separator(os))

\* filepath.Join: empty elements are ignored, the rest joined by Separator
\* and cleaned (Clean of such a path only turns its slashes to Separator).
FilepathJoin(os, elems) ==
    FromSlash(os, Join(SelectSeq(elems, LAMBDA e : e # <<>>), <<Separator(os)>>))

\* filepath.Split(path): the text after the final separator.
FilepathSplitFile(os, path) ==
    SubSeq(path, LastIndexIn(path, PathSeparators(os)) + 1, Len(path))

----------------------------------------------------------------------------
(* init() and trimTrace.                                                   *)

\* runtime.GOROOT(): the toolchain root, one directory token.
GOROOT == <<"goroot">>

\* The list separator init() splits GOPATH at.
ListSeparator(os) == IF os = "windows" THEN ";" ELSE ":"

\* trimStrings as init() builds it: "{GOROOT}/src/", then "{path}/src/" for
\* every entry of GOPATH in order, then "github.com/minio/minio/".
InitTrimStrings(os, gopath) ==
    LET sep == <<Separator(os)>>
        goPathList == Split(gopath, ListSeparator(os))
    IN  <<FilepathJoin(os, <<GOROOT, <<"src">>>>) \o sep>>
        \o [i \in 1..Len(goPathList) |->
               FilepathJoin(os, <<goPathList[i], <<"src">>>>) \o sep]
        \o <<FilepathJoin(os, <<<<"github.com">>, <<"minio">>, <<"minio">>>>) \o sep>>

RECURSIVE TrimLoopFirstOnly(_, _, _)
\* Variant that stops at the first trim string that matches.
TrimLoopFirstOnly(os, f, ts) ==
    IF ts = <<>> THEN f
    ELSE IF HasPrefix(ToSlash(os, f), ToSlash(os, Head(ts)))
         THEN TrimPrefix(ToSlash(os, f), ToSlash(os, Head(ts)))
         ELSE TrimLoopFirstOnly(os, ToSlash(os, f), Tail(ts))

RECURSIVE TrimLoopRest(_, _, _)
TrimLoopRest(os, f, ts) ==
    IF ts = <<>> THEN f
    ELSE TrimLoopRest(os, TrimPrefix(ToSlash(os, f), ToSlash(os, Head(ts))), Tail(ts))

\* Variant whose loop starts at the second trim string.
TrimLoopSkipFirst(os, f, ts) ==
    IF ts = <<>> THEN f ELSE TrimLoopRest(os, ToSlash(os, f), Tail(ts))

RECURSIVE TrimLoop(_, _, _)
\* The loop of trimTrace: every trim string in turn is cut from the front of
\* what the earlier ones left.
TrimLoop(os, f, ts) ==
    IF ts = <<>> THEN f
    ELSE TrimLoop(os, TrimPrefix(ToSlash(os, f), ToSlash(os, Head(ts))), Tail(ts))

trimTrace(os, ts, f) == FromSlash(os, TrimLoop(os, f, ts))

----------------------------------------------------------------------------
(* Formatting.                                                             *)

Digit(d) ==
    CASE d = 0 -> "0" [] d = 1 -> "1" [] d = 2 -> "2" [] d = 3 -> "3"
      [] d = 4 -> "4" [] d = 5 -> "5" [] d = 6 -> "6" [] d = 7 -> "7"
      [] d = 8 -> "8" [] d = 9 -> "9"

RECURSIVE Decimal(_)
\* The %v verb on a non-negative int: its decimal digits.
Decimal(n) == IF n < 10 THEN <<Digit(n)>> ELSE Append(Decimal(n \div 10), Digit(n % 10))

\* A width in a format verb: blanks on the left up to width w, never a cut.
PadLeft(s, w) == [i \in 1..(IF w > Len(s) THEN w - Len(s) ELSE 0) |-> " "] \o s

\* Field width of "%8v" in the trace numbering.
TraceIndexWidth == 8

\* fmt.Sprintf("%v:%v:%v()", file, lineNumber, funcName)
TraceLine(file, lineNumber, funcName) ==
    file \o <<":">> \o Decimal(lineNumber) \o <<":">> \o funcName \o <<"(", ")">>

\* fmt.Sprintf("%8v: %s", n, element)
NumberedLine(n, element) ==
    PadLeft(Decimal(n), TraceIndexWidth) \o <<":", " ">> \o element

----------------------------------------------------------------------------
(* getTrace.                                                               *)

RECURSIVE GetTraceLoopStopAtFiltered(_, _, _, _, _)
\* Variant whose enumeration ends at the first filtered frame.
GetTraceLoopStopAtFiltered(os, ts, stack, traceLevel, trace) ==
    IF traceLevel >= Len(stack) THEN trace
    ELSE LET fr == stack[traceLevel + 1]
             file == trimTrace(os, ts, fr.file)
             funcName == FilepathSplitFile(os, fr.fn)
         IN  IF /\ ~HasPrefix(file, <<"<autogenerated>">>)
                /\ ~HasPrefix(funcName, <<"runtime.">>)
             THEN GetTraceLoopStopAtFiltered(os, ts, stack, traceLevel + 1,
                      Append(trace, TraceLine(file, fr.line, funcName)))
             ELSE trace

RECURSIVE GetTraceLoop(_, _, _, _, _)
\* The loop of getTrace. stack[1] is the frame runtime.Caller(0) reports
\* (getTrace itself); runtime.Caller(n) is ok while n < Len(stack).
GetTraceLoop(os, ts, stack, traceLevel, trace) ==
    IF traceLevel >= Len(stack) THEN trace
    ELSE LET fr == stack[traceLevel + 1]
             file == trimTrace(os, ts, fr.file)
             funcName == FilepathSplitFile(os, fr.fn)
         IN  GetTraceLoop(os, ts, stack, traceLevel + 1,
                 IF /\ ~HasPrefix(file, <<"<autogenerated>">>)
                    /\ ~HasPrefix(funcName, <<"runtime.">>)
                 THEN Append(trace, TraceLine(file, fr.line, funcName))
                 ELSE trace)

getTrace(os, ts, stack, traceLevel) == GetTraceLoop(os, ts, stack, traceLevel, <<>>)

----------------------------------------------------------------------------
(* Errors and levels.                                                      *)

Error == 1
Fatal == 2
Levels == {Error, Fatal}

\* Level.String()
LevelString(level) ==
    CASE level = Error -> <<"ERROR">>
      [] level = Fatal -> <<"FATAL">>
      [] OTHER -> <<>>

\* The error types isErrIgnored names.
IgnoredTypes == {"BucketNotFound", "BucketNotEmpty", "BucketExists",
                 "ObjectNotFound", "ObjectExistsAsDirectory",
                 "BucketPolicyNotFound", "InvalidUploadID"}

\* Some error types it does not name.
OtherTypes == {"errDiskFull"}

Nil == [kind |-> "nil"]

\* An error value: a root cause of some type under a number of wrappers.
Err(type, wraps) == [kind |-> "error", type |-> type, wraps |-> wraps]

RECURSIVE Cause(_)
\* errors.Cause: unwraps until no further cause.
Cause(err) ==
    IF err.kind = "error" /\ err.wraps > 0
    THEN Cause(Err(err.type, err.wraps - 1))
    ELSE err

\* Variant with one case of the type switch missing.
isErrIgnoredNoUploadID(err) ==
    /\ Cause(err).kind = "error"
    /\ Cause(err).type \in (IgnoredTypes \ {"InvalidUploadID"})

\* The closure isErrIgnored of logIf.
isErrIgnored(err) ==
    /\ Cause(err).kind = "error"
    /\ Cause(err).type \in IgnoredTypes

\* err.Error(): the words of the message, lower case.
ErrorText(err) ==
    IF err.type \in IgnoredTypes THEN <<"not", " ", "found">> ELSE <<"disk", " ", "full">>

\* strings.Title: the first letter of every word in upper case.
Title(s) ==
    [i \in 1..Len(s) |->
        CASE s[i] = "not" -> "Not" [] s[i] = "found" -> "Found"
          [] s[i] = "disk" -> "Disk" [] s[i] = "full" -> "Full"
          [] OTHER -> s[i]]

----------------------------------------------------------------------------
(* Rendering in logIf.                                                     *)

\* Skip level logIf hands to getTrace.
TraceSkip == 3

\* encoding/json of a string and of a []string (a nil slice is null).
JSONString(s) == <<"\"">> \o s \o <<"\"">>

JSONStrings(ss) ==
    IF ss = <<>> THEN <<"null">>
    ELSE <<"[">> \o Join([i \in 1..Len(ss) |-> JSONString(ss[i])], <<",">>) \o <<"]">>

\* json.Marshal(&logEntry{...}): one line, the five fields in struct order.
MarshalLogEntry(level, message, time, cause, trace) ==
    <<"{", "\"level\":">> \o JSONString(level)
    \o <<",", "\"message\":">> \o JSONString(message)
    \o <<",", "\"time\":">> \o JSONString(time)
    \o <<",", "\"cause\":">> \o JSONString(cause)
    \o <<",", "\"trace\":">> \o JSONStrings(trace) \o <<"}">>

\* Variant that numbers every entry after the first one too low.
NumberTraceOffByOne(trace) ==
    [i \in 1..Len(trace) |->
        IF i = 1 THEN <<"1", ":", " ">> \o trace[1]
        ELSE NumberedLine(i - 1, trace[i])]

\* The numbering of the trace in place; only called on a non-empty trace.
NumberTrace(trace) ==
    [i \in 1..Len(trace) |->
        IF i = 1 THEN <<"1", ":", " ">> \o trace[1]
        ELSE NumberedLine(i, trace[i])]

\* colorRed(colorBold(s)): s between the escape sequences of the console.
ColorRedBold(s) == <<"<red>", "<bold>">> \o s \o <<"</bold>", "</red>">>

\* fmt.Sprintf("[%s] [%s] %s (%s)", timeOfError, level.String(), message, cause)
ErrMsg(level, message, time, cause) ==
    <<"[">> \o time \o <<"]", " ", "[">> \o LevelString(level) \o <<"]", " ">>
    \o message \o <<" ", "(">> \o cause \o <<")">>

\* fmt.Sprintf("\nTrace: %s\n%s", strings.Join(trace, "\n"), red bold errMsg)
TextOutput(level, message, time, cause, numbered) ==
    <<"\n", "Trace: ">> \o Join(numbered, <<"\n">>) \o <<"\n">>
    \o ColorRedBold(ErrMsg(level, message, time, cause))

\* Variant that makes one Write call per line.
PrintlnWritesPerLine(output) ==
    LET lines == Split(output, "\n")
    IN  [i \in 1..Len(lines) |-> lines[i] \o <<"\n">>]

\* The Write calls fmt.Println(output) makes on os.Stdout: one, of the
\* whole output and the newline.
PrintlnWrites(output) == <<output \o <<"\n">>>>

\* What logIf(level, err, msg, data...) does when called with the given call
\* stack at the given time, message being Sprintf(msg, data...):
\*   result  "ignored" (early return), "returned", "exit" (os.Exit(1)) or
\*           "panic" (trace[0] of an empty trace);
\*   trace   what getTrace(3) returned;
\*   writes  the Write calls made on os.Stdout.
LogIfOutcome(os, ts, isJSON, level, err, message, stack, time) ==
    IF err = Nil \/ isErrIgnored(err)
    THEN [result |-> "ignored", trace |-> <<>>, writes |-> <<>>]
    ELSE LET cause == Title(ErrorText(err))
             trace == getTrace(os, ts, stack, TraceSkip)
         IN  IF ~isJSON /\ trace = <<>>
             THEN [result |-> "panic", trace |-> trace, writes |-> <<>>]
             ELSE [result |-> IF level = Fatal THEN "exit" ELSE "returned",
                   trace |-> trace,
                   writes |-> PrintlnWrites(
                       IF isJSON
                       THEN MarshalLogEntry(LevelString(level), message, time,
                                            cause, trace)
                       ELSE TextOutput(level, message, time, cause,
                                       NumberTrace(trace)))]

----------------------------------------------------------------------------
(* Values the runs draw their inputs from.                                 *)

OSes == {"linux", "windows"}

\* GOPATH as built in: empty, one directory, or two directories separated
\* the Unix or the Windows way.
GoPaths == {<<>>, <<"gopath">>, <<"gopath", ":", "vendor">>,
            <<"gopath", ";", "vendor">>}

RECURSIVE SeqsUpTo(_, _)
\* All sequences over S of length 0..n.
SeqsUpTo(S, n) ==
    IF n = 0 THEN {<<>>}
    ELSE LET shorter == SeqsUpTo(S, n - 1)
         IN  shorter \cup {Append(q, x) : q \in shorter, x \in S}

\* What a file path handed to trimTrace is made of: the trim strings, as
\* written and with forward slashes (runtime.Caller reports forward slashes
\* on every system), and the rest of a path.
PathPieces(os, ts) ==
    {ts[i] : i \in 1..Len(ts)} \cup {ToSlash(os, ts[i]) : i \in 1..Len(ts)}
    \cup {<<"cmd", "/", "x.go">>, <<"cmd", "\\", "x.go">>, <<"<autogenerated>">>}

Paths(os, ts) == {Concat(q) : q \in SeqsUpTo(PathPieces(os, ts), MaxPieces)}

NoCall == [op |-> "none", n |-> 0]
NoProcs == <<>>

\* The configurations the Logger can be in (Default, Quiet, JSON).
Modes == {<<FALSE, FALSE>>, <<TRUE, FALSE>>, <<TRUE, TRUE>>}

\* Errors handed to logIf: nil, or a root cause under 0..MaxWrap wrappers.
Errs == {Nil} \cup {Err(t, w) : t \in IgnoredTypes \cup OtherTypes, w \in 0..MaxWrap}

\* A few of them.
SampleErrs == {Nil, Err("ObjectNotFound", MaxWrap), Err("errDiskFull", 0),
               Err("errDiskFull", MaxWrap)}

Times == {<<"t1">>}
Messages == {<<"failed">>}

MinioFile(name) ==
    <<"gopath", "/", "src", "/", "github.com", "/", "minio", "/", "minio", "/",
      "cmd", "/">> \o <<name>>
MinioFunc(name) ==
    <<"github.com", "/", "minio", "/", "minio", "/", "cmd.">> \o <<name>>

\* The two frames every stack starts with: getTrace and logIf.
FrGetTrace == [file |-> MinioFile("logger.go"), line |-> 134, fn |-> MinioFunc("getTrace")]
FrLogIf == [file |-> MinioFile("logger.go"), line |-> 177, fn |-> MinioFunc("logIf")]

\* The wrapper errorIf.
FrErrorIf == [file |-> MinioFile("logger.go"), line |-> 217, fn |-> MinioFunc("errorIf")]

\* Frames of callers: a function of the project, a compiler-made wrapper, a
\* function of the runtime, a function of the standard library.
FrUser == [file |-> MinioFile("x.go"), line |-> 42, fn |-> MinioFunc("serve")]
FrAuto == [file |-> <<"<autogenerated>">>, line |-> 1, fn |-> MinioFunc("(*T).m")]
FrRuntime == [file |-> <<"goroot", "/", "src", "/", "runtime", "/", "proc.go">>,
              line |-> 2361, fn |-> <<"runtime.", "goexit">>]
FrStd == [file |-> <<"goroot", "/", "src", "/", "net", "/", "http", "/", "server.go">>,
          line |-> 7, fn |-> <<"net", "/", "http.", "serve">>]
FrameKinds == {FrUser, FrAuto, FrRuntime, FrStd}

\* Call stacks at the call of getTrace, innermost frame first: getTrace,
\* logIf, the callers of logIf, and runtime.goexit at the bottom of the
\* goroutine. Every choice of up to MaxDepth callers (none when logIf is
\* started with the go statement), and deeper stacks of project frames only
\* (their traces reach two-digit indices).
Stacks ==
    {<<FrGetTrace, FrLogIf>> \o c \o <<FrRuntime>> : c \in SeqsUpTo(FrameKinds, MaxDepth)}
    \cup {<<FrGetTrace, FrLogIf>> \o [i \in 1..n |-> FrUser] \o <<FrRuntime>> :
              n \in 1..MaxDeep}

\* Two stacks of a goroutine: errorIf called from a project function, and
\* errorIf started with the go statement.
SampleStacks == {<<FrGetTrace, FrLogIf, FrErrorIf, FrUser, FrRuntime>>,
                 <<FrGetTrace, FrLogIf, FrErrorIf, FrRuntime>>}

----------------------------------------------------------------------------
(* SpecTrim: trimTrace applied to a path, and again to its result.         *)

InitTrim ==
    /\ GOOS \in OSes
    /\ GOPATH \in GoPaths
    /\ trimStrings = InitTrimStrings(GOOS, GOPATH)
    /\ quiet = FALSE
    /\ json = FALSE
    /\ status = "running"
    /\ stdout = <<>>
    /\ console = 0
    /\ last \in {[op |-> "path", f |-> p] : p \in Paths(GOOS, trimStrings)}
    /\ procs = NoProcs

TrimOnce ==
    /\ last.op = "path"
    /\ last' = [op |-> "trimTrace", f |-> last.f,
                r |-> trimTrace(GOOS, trimStrings, last.f)]
    /\ UNCHANGED <<GOOS, GOPATH, trimStrings, quiet, json, status, stdout,
                   console, procs>>

TrimAgain ==
    /\ last.op = "trimTrace"
    /\ last' = [op |-> "trimTrace2", f |-> last.f, r |-> last.r,
                rr |-> trimTrace(GOOS, trimStrings, last.r)]
    /\ UNCHANGED <<GOOS, GOPATH, trimStrings, quiet, json, status, stdout,
                   console, procs>>

NextTrim == TrimOnce \/ TrimAgain

SpecTrim == InitTrim /\ [][NextTrim]_vars

----------------------------------------------------------------------------
(* The Logger and logIf, one call after the other.                         *)

Config == <<GOOS, GOPATH, trimStrings>>

\* The records of the Write calls a call makes: who wrote, and what.
WriteTags(call, writes) ==
    [i \in 1..Len(writes) |-> [call |-> call, text |-> writes[i]]]

EnableQuiet ==
    /\ status = "running"
    /\ last.n < MaxCalls
    /\ quiet' = TRUE
    /\ last' = [op |-> "EnableQuiet", n |-> last.n + 1]
    /\ UNCHANGED <<Config, json, status, stdout, console, procs>>

\* Variant that leaves quiet alone.
EnableJSONOnly ==
    /\ status = "running"
    /\ last.n < MaxCalls
    /\ json' = TRUE
    /\ last' = [op |-> "EnableJSON", n |-> last.n + 1]
    /\ UNCHANGED <<Config, quiet, status, stdout, console, procs>>

EnableJSON ==
    /\ status = "running"
    /\ last.n < MaxCalls
    /\ json' = TRUE
    /\ quiet' = TRUE
    /\ last' = [op |-> "EnableJSON", n |-> last.n + 1]
    /\ UNCHANGED <<Config, status, stdout, console, procs>>

Println ==
    /\ status = "running"
    /\ last.n < MaxCalls
    /\ console' = IF ~quiet THEN console + 1 ELSE console
    /\ last' = [op |-> "Println", n |-> last.n + 1, printed |-> console' - console]
    /\ UNCHANGED <<Config, quiet, json, status, stdout, procs>>

Printf ==
    /\ status = "running"
    /\ last.n < MaxCalls
    /\ console' = IF ~quiet THEN console + 1 ELSE console
    /\ last' = [op |-> "Printf", n |-> last.n + 1, printed |-> console' - console]
    /\ UNCHANGED <<Config, quiet, json, status, stdout, procs>>

\* logIf(level, err, msg, data...) on the given call stack.
LogIf(level, err, message, stack, time) ==
    /\ status = "running"
    /\ last.n < MaxCalls
    /\ LET o == LogIfOutcome(GOOS, trimStrings, json, level, err, message, stack, time)
       IN  /\ stdout' = stdout \o WriteTags(last.n + 1, o.writes)
           /\ status' = CASE o.result = "exit" -> "exit1"
                          [] o.result = "panic" -> "panic"
                          [] OTHER -> status
           /\ last' = [op |-> "logIf", n |-> last.n + 1, level |-> level,
                       err |-> err, stack |-> stack, message |-> message,
                       time |-> time, wasJSON |-> json, wasQuiet |-> quiet,
                       result |-> o.result, trace |-> o.trace,
                       writes |-> o.writes, before |-> stdout]
    /\ UNCHANGED <<Config, quiet, json, console, procs>>

Init ==
    /\ GOOS \in OSes
    /\ GOPATH \in GoPaths
    /\ trimStrings = InitTrimStrings(GOOS, GOPATH)
    /\ quiet = FALSE
    /\ json = FALSE
    /\ status = "running"
    /\ stdout = <<>>
    /\ console = 0
    /\ last = NoCall
    /\ procs = NoProcs

\* errorIf, fatalIf and direct calls of logIf.
LogIfCall ==
    \E level \in Levels, err \in Errs, m \in Messages,
       stack \in SampleStacks, t \in Times :
       LogIf(level, err, m, stack, t)

Next ==
    \/ EnableQuiet
    \/ EnableJSON
    \/ Println
    \/ Printf
    \/ LogIfCall

Spec == Init /\ [][Next]_vars

----------------------------------------------------------------------------
(* SpecCall: one logIf call, from every configuration and on every stack.  *)

InitCall ==
    /\ GOOS \in OSes
    /\ GOPATH \in GoPaths
    /\ trimStrings = InitTrimStrings(GOOS, GOPATH)
    /\ \E m \in Modes : quiet = m[1] /\ json = m[2]
    /\ status = "running"
    /\ stdout = <<>>
    /\ console = 0
    /\ last = NoCall
    /\ procs = NoProcs

OneLogIfCall ==
    /\ last.n = 0
    /\ \E level \in Levels, err \in SampleErrs, m \in Messages,
          stack \in Stacks, t \in Times :
          LogIf(level, err, m, stack, t)

\* getTrace(skip) alone, on every stack.
GetTraceCall ==
    /\ last.n = 0
    /\ \E skip \in 0..MaxSkip, stack \in Stacks :
          last' = [op |-> "getTrace", n |-> 1, skip |-> skip, stack |-> stack,
                   trace |-> getTrace(GOOS, trimStrings, stack, skip)]
    /\ UNCHANGED <<Config, quiet, json, status, stdout, console, procs>>

NextCall == OneLogIfCall \/ GetTraceCall

SpecCall == InitCall /\ [][NextCall]_vars

----------------------------------------------------------------------------
(* SpecConc: goroutines in logIf at the same time, statement by statement. *)
(* The flags were set during startup and are only read.                    *)

Procs == 1..NProcs

\* The calls the goroutines make: level, err and call stack.
ConcCalls ==
    {[level |-> Error, err |-> Nil, stack |-> s] : s \in SampleStacks}
    \cup {[level |-> Error, err |-> Err("BucketExists", 1), stack |-> s] : s \in SampleStacks}
    \cup {[level |-> l, err |-> Err("errDiskFull", 0), stack |-> s] :
             l \in Levels, s \in SampleStacks}

Idle == [pc |-> "idle", level |-> Error, err |-> Nil, stack |-> <<>>,
         trace |-> <<>>, output |-> <<>>, sent |-> 0]

InitConc ==
    /\ GOOS \in OSes
    /\ GOPATH = <<"gopath">>
    /\ trimStrings = InitTrimStrings(GOOS, GOPATH)
    /\ \E m \in Modes : quiet = m[1] /\ json = m[2]
    /\ status = "running"
    /\ stdout = <<>>
    /\ console = 0
    /\ last = NoCall
    /\ procs = [p \in Procs |-> Idle]

ConcUnchanged == <<Config, quiet, json, console, last>>

\* logIf is entered.
Enter(p) ==
    /\ status = "running"
    /\ procs[p].pc = "idle"
    /\ \E c \in ConcCalls :
          procs' = [procs EXCEPT ![p] = [Idle EXCEPT !.pc = "check",
                       !.level = c.level, !.err = c.err, !.stack = c.stack]]
    /\ UNCHANGED <<ConcUnchanged, status, stdout>>

\* if err == nil || isErrIgnored(err) { return }
Check(p) ==
    /\ status = "running"
    /\ procs[p].pc = "check"
    /\ procs' = [procs EXCEPT ![p].pc =
                    IF procs[p].err = Nil \/ isErrIgnored(procs[p].err)
                    THEN "done" ELSE "trace"]
    /\ UNCHANGED <<ConcUnchanged, status, stdout>>

\* trace := getTrace(3), a slice of this call alone.
BuildTrace(p) ==
    /\ status = "running"
    /\ procs[p].pc = "trace"
    /\ procs' = [procs EXCEPT ![p].pc = "render",
                    ![p].trace = getTrace(GOOS, trimStrings, procs[p].stack, TraceSkip)]
    /\ UNCHANGED <<ConcUnchanged, status, stdout>>

\* The if log.json { ... } else { ... } that builds output; trace[0] of an
\* empty trace panics.
Render(p) ==
    /\ status = "running"
    /\ procs[p].pc = "render"
    /\ LET me == procs[p]
           cause == Title(ErrorText(me.err))
       IN  IF json
           THEN /\ procs' = [procs EXCEPT ![p].pc = "write",
                       ![p].output = MarshalLogEntry(LevelString(me.level),
                           <<"failed">>, <<"t1">>, cause, me.trace)]
                /\ UNCHANGED status
           ELSE IF me.trace = <<>>
           THEN /\ procs' = [procs EXCEPT ![p].pc = "panic"]
                /\ status' = "panic"
           ELSE /\ procs' = [procs EXCEPT ![p].pc = "write",
                       ![p].trace = NumberTrace(me.trace),
                       ![p].output = TextOutput(me.level, <<"failed">>, <<"t1">>,
                                                cause, NumberTrace(me.trace))]
                /\ UNCHANGED status
    /\ UNCHANGED <<ConcUnchanged, stdout>>

\* fmt.Println(output): its next Write call on os.Stdout.
Write(p) ==
    /\ status = "running"
    /\ procs[p].pc = "write"
    /\ LET writes == PrintlnWrites(procs[p].output)
           k == procs[p].sent + 1
       IN  /\ stdout' = Append(stdout, [call |-> p, text |-> writes[k]])
           /\ procs' = [procs EXCEPT ![p].sent = k,
                           ![p].pc = IF k = Len(writes) THEN "written" ELSE "write"]
    /\ UNCHANGED <<ConcUnchanged, status>>

\* if level == Fatal { os.Exit(1) }, or the return.
Finish(p) ==
    /\ status = "running"
    /\ procs[p].pc = "written"
    /\ IF procs[p].level = Fatal
       THEN /\ status' = "exit1"
            /\ procs' = [procs EXCEPT ![p].pc = "exit"]
       ELSE /\ UNCHANGED status
            /\ procs' = [procs EXCEPT ![p].pc = "done"]
    /\ UNCHANGED <<ConcUnchanged, stdout>>

NextConc ==
    \E p \in Procs :
        \/ Enter(p)
        \/ Check(p)
        \/ BuildTrace(p)
        \/ Render(p)
        \/ Write(p)
        \/ Finish(p)

SpecConc == InitConc /\ [][NextConc]_vars

----------------------------------------------------------------------------
(* Claims about trimTrace.                                                 *)

\* The trim strings of ts, in slash form, that begin the slash form of f.
MatchingPrefixes(os, ts, f) ==
    {i \in 1..Len(ts) : HasPrefix(ToSlash(os, f), ToSlash(os, ts[i]))}

\* f with the first matching trim string cut off, or f as it is when none
\* matches; either way with the separators of the operating system.
FirstMatchStripped(os, ts, f) ==
    LET m == MatchingPrefixes(os, ts, f)
    IN  IF m = {} THEN FromSlash(os, f)
        ELSE LET i == CHOOSE k \in m : \A j \in m : k <= j
             IN  FromSlash(os, TrimPrefix(ToSlash(os, f), ToSlash(os, ts[i])))

\* C5 as stated: trimTrace strips only the first matching prefix of the
\* list, and returns the path unchanged when no prefix matches (unchanged
\* but for the separators, which 4.2 of the specification lets it convert).
C5_FirstMatchOnly ==
    last.op = "trimTrace" =>
        last.r = FirstMatchStripped(GOOS, trimStrings, last.f)

RECURSIVE StripChosen(_, _, _, _, _)
\* f (slash form) after cutting, for i = k..Len(ts) in order, ts[i] when
\* i \in chosen; "fail" when a chosen one does not begin what is left or
\* an unchosen one does.
StripChosen(os, ts, chosen, k, f) ==
    IF k > Len(ts) THEN f
    ELSE LET p == ToSlash(os, ts[k])
         IN  IF HasPrefix(f, p) # (k \in chosen) THEN <<"fail">>
             ELSE StripChosen(os, ts, chosen, k + 1,
                              IF k \in chosen THEN SubSeq(f, Len(p) + 1, Len(f))
                              ELSE f)

\* C5, amended: the trim strings are tried in list order, each against what
\* the earlier ones left, and every one that matches at its turn is cut off
\* (not only the first); the result is what is left, with the separators of
\* the operating system. Exactly one choice of trim strings fits, and when
\* none is cut the result is f with native separators.
C5_EveryPrefixInOrder ==
    last.op = "trimTrace" =>
        LET ts == trimStrings
            fits == {c \in SUBSET (1..Len(ts)) :
                        StripChosen(GOOS, ts, c, 1, ToSlash(GOOS, last.f)) # <<"fail">>}
        IN  /\ Cardinality(fits) = 1
            /\ \A c \in fits :
                  /\ last.r = FromSlash(GOOS,
                         StripChosen(GOOS, ts, c, 1, ToSlash(GOOS, last.f)))
                  /\ ToSlash(GOOS, last.f) =
                         Concat([i \in 1..Len(ts) |->
                                    IF i \in c THEN ToSlash(GOOS, ts[i]) ELSE <<>>])
                         \o ToSlash(GOOS, last.r)
                  /\ c = {} => last.r = FromSlash(GOOS, last.f)

\* A path from which two trim strings were cut: a search root and the
\* project's own path.
C5_Witness ==
    /\ last.op = "trimTrace"
    /\ Len(last.f) - Len(last.r) > Len(trimStrings[Len(trimStrings)])
    /\ \E i \in 1..(Len(trimStrings) - 1) :
          HasPrefix(ToSlash(GOOS, last.f),
                    ToSlash(GOOS, trimStrings[i] \o trimStrings[Len(trimStrings)]))

\* C6 as stated: trimTrace(trimTrace(p)) = trimTrace(p) for every path.
C6_Idempotent ==
    last.op = "trimTrace2" => last.rr = last.r

\* C6, amended: a second trimTrace changes the result of the first exactly
\* when that result still begins with a trim string; a result that begins
\* with none is a fixed point.
C6_IdempotentUnlessPrefixLeft ==
    last.op = "trimTrace2" =>
        (last.rr = last.r <=> MatchingPrefixes(GOOS, trimStrings, last.r) = {})

\* trimTrace was applied twice to a path it cut something from, and the
\* second application changed nothing.
C6_Witness ==
    /\ last.op = "trimTrace2"
    /\ Len(last.r) < Len(last.f)
    /\ last.rr = last.r

----------------------------------------------------------------------------
(* Claims about the Logger and logIf.                                      *)

\* The error is non-nil and its root cause is of none of the ignored types.
Loggable(err) == err # Nil /\ err.type \notin IgnoredTypes

\* C1: a logIf call, of either level, whose err is nil or whose root cause
\* is of one of the seven ignored types writes nothing to stdout, does not
\* end the process and leaves the Logger as it was.
C1_IgnoredIsNoOp ==
    (last.op = "logIf" /\ ~Loggable(last.err)) =>
        /\ last.writes = <<>>
        /\ stdout = last.before
        /\ status = "running"
        /\ last.result = "ignored"
        /\ quiet = last.wasQuiet
        /\ json = last.wasJSON

\* A Fatal call on a wrapped error of an ignored type has returned.
C1_Witness ==
    /\ last.op = "logIf"
    /\ last.level = Fatal
    /\ last.err # Nil
    /\ last.err.type \in IgnoredTypes
    /\ last.err.wraps > 0
    /\ status = "running"

\* C2: for a non-nil, non-ignorable error a Fatal call writes exactly one
\* record and then ends the process with exit status 1 (it never returns);
\* an Error call writes exactly one record, returns and never ends the
\* process.
C2_OneRecordThenExitOrReturn ==
    (last.op = "logIf" /\ Loggable(last.err)) =>
        /\ Len(last.writes) = 1
        /\ stdout = last.before \o WriteTags(last.n, last.writes)
        /\ last.level = Fatal => (status = "exit1" /\ last.result = "exit")
        /\ last.level = Error => (status = "running" /\ last.result = "returned")

\* C3: Println and Printf print exactly when quiet is false, and logIf on a
\* non-nil, non-ignorable error writes a record whether quiet is true or
\* false.
C3_QuietGatesOnlyPrints ==
    /\ last.op \in {"Println", "Printf"} => (last.printed = 1 <=> ~quiet)
    /\ (last.op = "logIf" /\ Loggable(last.err)) => Len(last.writes) = 1

\* C4: json implies quiet in every state, and once json is true both flags
\* stay true (the configurations are Default, Quiet and JSON).
C4_JSONImpliesQuietForever ==
    /\ [](json => quiet)
    /\ [][json => (json' /\ quiet')]_vars

\* A call completed after EnableJSON, with both flags still set.
C4_Witness ==
    /\ json
    /\ quiet
    /\ last.op = "logIf"
    /\ last.wasJSON

\* C7: whenever logIf emits a record its trace is non-empty, on every stack.
C7_EmittedTraceNonEmpty ==
    (last.op = "logIf" /\ last.writes # <<>>) => last.trace # <<>>

RECURSIVE ParseDecimal(_)
\* The number a sequence of digits denotes, -1 when it is no such sequence.
ParseDecimal(ds) ==
    IF ds = <<>> THEN -1
    ELSE LET d == CHOOSE v \in -1..9 :
                     \/ v >= 0 /\ Digit(v) = ds[Len(ds)]
                     \/ v = -1 /\ \A w \in 0..9 : Digit(w) # ds[Len(ds)]
         IN  IF d = -1 THEN -1
             ELSE IF Len(ds) = 1 THEN d
             ELSE LET rest == ParseDecimal(SubSeq(ds, 1, Len(ds) - 1))
                  IN  IF rest = -1 THEN -1 ELSE 10 * rest + d

\* s is the number n right-aligned in a field of the given width: blanks,
\* then the digits of n, with nothing cut off.
RightAligned(s, n, width) ==
    \E b \in 0..Len(s) :
        /\ \A i \in 1..b : s[i] = " "
        /\ b < Len(s)
        /\ s[b + 1] # " "
        /\ ParseDecimal(SubSeq(s, b + 1, Len(s))) = n
        /\ Len(s) >= width
        /\ b > 0 => Len(s) = width

\* C8: in text mode, for a non-ignorable error with a trace of k >= 1
\* entries, the output is a blank line, then "Trace: " and the k entries one
\* per line in trace order, then the header line last; entry 1 is prefixed
\* "1: " and entry n >= 2 by n right-aligned in width 8 and ": ".
C8_TextLayout ==
    (/\ last.op = "logIf"
     /\ Loggable(last.err)
     /\ ~last.wasJSON
     /\ last.trace # <<>>) =>
        /\ Len(last.writes) = 1
        /\ LET k == Len(last.trace)
               lines == Split(last.writes[1], "\n")
           IN  /\ Len(lines) = k + 3
               /\ lines[1] = <<>>
               /\ lines[2] = <<"Trace: ", "1", ":", " ">> \o last.trace[1]
               /\ \A n \in 2..k :
                     LET line == lines[n + 1]
                         w == Len(line) - Len(last.trace[n]) - 2
                     IN  /\ w >= 1
                         /\ RightAligned(SubSeq(line, 1, w), n, 8)
                         /\ SubSeq(line, w + 1, w + 2) = <<":", " ">>
                         /\ SubSeq(line, w + 3, Len(line)) = last.trace[n]
               /\ lines[k + 2] = ColorRedBold(
                      <<"[">> \o last.time \o <<"]", " ", "[">>
                      \o (IF last.level = Fatal THEN <<"FATAL">> ELSE <<"ERROR">>)
                      \o <<"]", " ">> \o last.message \o <<" ", "(">>
                      \o Title(ErrorText(last.err)) \o <<")">>)
               /\ lines[k + 3] = <<>>

\* A text record whose trace has entries with two-digit indices.
C8_Witness ==
    /\ last.op = "logIf"
    /\ ~last.wasJSON
    /\ Len(last.writes) = 1
    /\ Len(last.trace) >= 10

\* The frame is one getTrace keeps.
Kept(os, ts, fr) ==
    /\ ~HasPrefix(trimTrace(os, ts, fr.file), <<"<autogenerated>">>)
    /\ ~HasPrefix(FilepathSplitFile(os, fr.fn), <<"runtime.">>)

\* C9: getTrace(skipLevel) returns, innermost first, exactly the frames at
\* depth >= skipLevel whose normalized file does not start with
\* "<autogenerated>" and whose short function name does not start with
\* "runtime."; none is dropped, doubled or taken from below skipLevel, and a
\* filtered frame does not end the enumeration.
C9_TraceIsFilteredSuffix ==
    last.op = "getTrace" =>
        LET above == {i \in 1..Len(last.stack) :
                         i > last.skip /\ Kept(GOOS, trimStrings, last.stack[i])}
            nth(j) == CHOOSE i \in above :
                          Cardinality({h \in above : h < i}) = j - 1
        IN  /\ Len(last.trace) = Cardinality(above)
            /\ \A j \in 1..Len(last.trace) :
                  last.trace[j] =
                      TraceLine(trimTrace(GOOS, trimStrings, last.stack[nth(j)].file),
                                last.stack[nth(j)].line,
                                FilepathSplitFile(GOOS, last.stack[nth(j)].fn))

\* getTrace kept a frame that lies beyond a filtered one.
C9_Witness ==
    /\ last.op = "getTrace"
    /\ last.skip = TraceSkip
    /\ Len(last.stack) > TraceSkip + 1
    /\ ~Kept(GOOS, trimStrings, last.stack[TraceSkip + 1])
    /\ Len(last.trace) >= 1

\* C10: every emitting logIf call hands its whole record to stdout in one
\* write, so whatever the interleaving of the callers stdout is a sequence
\* of whole records, each of one call and of that call's own trace.
C10_WholeRecordsOnly ==
    /\ \A i \in 1..Len(stdout) :
          LET me == procs[stdout[i].call]
          IN  /\ stdout[i].text = me.output \o <<"\n">>
              /\ me.output =
                    IF json
                    THEN MarshalLogEntry(LevelString(me.level), <<"failed">>, <<"t1">>,
                             Title(ErrorText(me.err)),
                             getTrace(GOOS, trimStrings, me.stack, TraceSkip))
                    ELSE TextOutput(me.level, <<"failed">>, <<"t1">>,
                             Title(ErrorText(me.err)),
                             NumberTrace(getTrace(GOOS, trimStrings, me.stack, TraceSkip)))
    /\ \A i, j \in 1..Len(stdout) : stdout[i].call = stdout[j].call => i = j

\* Every goroutine has written a record of several lines.
C10_Witness ==
    /\ ~json
    /\ Len(stdout) = NProcs
    /\ \A p \in Procs : procs[p].pc \in {"written", "done", "exit"}

====
